---- MODULE Spec2Model ----
(***************************************************************************)
(* FarmAssist Pro backend (src/main.py): the AI-response normalisation     *)
(* pipeline.  One invocation of one operation is modelled per behaviour:   *)
(* the initial state holds the invocation (operation, arguments, what the  *)
(* generative model will answer), the operation's action runs the whole    *)
(* function or request handler and stores what it returns and which        *)
(* translation prompts it sent.                                            *)
(*                                                                         *)
(* Python values are tagged pairs <<tag, payload>>:                        *)
(*   <<"dict", seq of <<key, value>> >>  (insertion order, unique keys)    *)
(*   <<"list", seq of values>>, <<"str", s>>, <<"int", n>>,                *)
(*   <<"bool", b>>, <<"none", 0>>;  <<"exc", 0>> stands for a raised       *)
(*   exception: every helper is strict in it.                              *)
(***************************************************************************)
EXTENDS Integers, Sequences, FiniteSets, TLC

VARIABLES pc, op, arg, language, image_ok, gen, oracle, ret, calls

vars == <<pc, op, arg, language, image_ok, gen, oracle, ret, calls>>

-----------------------------------------------------------------------------
(* Python values *)

None == <<"none", 0>>
EXC == <<"exc", 0>>
PyStr(s) == <<"str", s>>
PyInt(n) == <<"int", n>>
PyBool(b) == <<"bool", b>>
PyList(q) == <<"list", q>>
PyDict(q) == <<"dict", q>>
EmptyDict == PyDict(<< >>)
EmptyList == PyList(<< >>)

\* K applied to v: a local variable, assigned once and read by what follows
Bind(v, K(_)) == K(v)

Tag(v) == v[1]
Val(v) == v[2]
IsExc(v) == Tag(v) = "exc"

\* bool(v): Python truthiness
Truthy(v) ==
  CASE Tag(v) = "none" -> FALSE
    [] Tag(v) = "bool" -> Val(v)
    [] Tag(v) = "int" -> Val(v) # 0
    [] Tag(v) = "str" -> Val(v) # ""
    [] Tag(v) = "list" -> Len(Val(v)) > 0
    [] Tag(v) = "dict" -> Len(Val(v)) > 0
    [] OTHER -> FALSE

\* a or b
PyOr(a, b) == IF IsExc(a) THEN EXC ELSE IF Truthy(a) THEN a ELSE b

\* key in d, for a dict d
HasKey(d, k) == \E i \in 1..Len(Val(d)) : Val(d)[i][1] = k

Lookup(d, k) == Val(d)[CHOOSE i \in 1..Len(Val(d)) : Val(d)[i][1] = k][2]

\* d[k] = v, for a dict d: an existing key keeps its place
SetKey(d, k, v) ==
  IF HasKey(d, k)
  THEN PyDict([i \in 1..Len(Val(d)) |->
                 IF Val(d)[i][1] = k THEN <<k, v>> ELSE Val(d)[i]])
  ELSE PyDict(Append(Val(d), <<k, v>>))

\* obj.get(k, default): AttributeError unless obj is a dict
PyGet(obj, k, default) ==
  IF Tag(obj) # "dict" THEN EXC
  ELSE IF HasKey(obj, k) THEN Lookup(obj, k) ELSE default

\* needle in hay, for strings
Contains(hay, needle) ==
  \E i \in 1..(Len(hay) - Len(needle) + 1) :
     SubSeq(hay, i, i + Len(needle) - 1) = needle

\* s in obj: key of a dict, element of a list, substring of a str;
\* TypeError for int, bool and None
PyIn(s, obj) ==
  CASE Tag(obj) = "dict" -> PyBool(HasKey(obj, s))
    [] Tag(obj) = "list" -> PyBool(\E i \in 1..Len(Val(obj)) : Val(obj)[i] = PyStr(s))
    [] Tag(obj) = "str" -> PyBool(Contains(Val(obj), s))
    [] OTHER -> EXC

\* what "for x in obj" iterates over; TypeError for int, bool and None
Iter(obj) ==
  CASE Tag(obj) = "list" -> obj
    [] Tag(obj) = "dict" -> PyList([i \in 1..Len(Val(obj)) |-> PyStr(Val(obj)[i][1])])
    [] Tag(obj) = "str" -> PyList([i \in 1..Len(Val(obj)) |-> PyStr(SubSeq(Val(obj), i, i))])
    [] OTHER -> EXC

\* obj[0]: IndexError on an empty sequence, KeyError on a dict (its keys are
\* strings), TypeError otherwise
Index0(obj) ==
  CASE Tag(obj) = "list" -> IF Len(Val(obj)) > 0 THEN Val(obj)[1] ELSE EXC
    [] Tag(obj) = "str" -> IF Len(Val(obj)) > 0 THEN PyStr(SubSeq(Val(obj), 1, 1)) ELSE EXC
    [] OTHER -> EXC

-----------------------------------------------------------------------------
(* Characters and strings *)

Ch(t, i) == IF i >= 1 /\ i <= Len(t) THEN SubSeq(t, i, i) ELSE ""

\* t[i..j] (1-based, inclusive), "" when it does not lie within t
Slice(t, i, j) == IF i >= 1 /\ j <= Len(t) /\ i <= j THEN SubSeq(t, i, j) ELSE ""

IsSpace(c) == c \in {" ", "\t", "\n", "\r"}
IsDigit(c) == c \in {"0", "1", "2", "3", "4", "5", "6", "7", "8", "9"}

Upper == <<"A","B","C","D","E","F","G","H","I","J","K","L","M",
           "N","O","P","Q","R","S","T","U","V","W","X","Y","Z">>
LowerOf == <<"a","b","c","d","e","f","g","h","i","j","k","l","m",
             "n","o","p","q","r","s","t","u","v","w","x","y","z">>

UpperSet == {Upper[i] : i \in 1..26}
LetterSet == UpperSet \cup {LowerOf[i] : i \in 1..26}
LowerMap == [c \in UpperSet |-> LowerOf[CHOOSE i \in 1..26 : Upper[i] = c]]

\* the character c under the character map m: itself when m has no entry
MapChar(m, c) == IF c \in DOMAIN m THEN m[c] ELSE c

RECURSIVE MapRange(_, _, _, _)
\* the string t[i..j] with m applied to every character (by halves)
MapRange(m, t, i, j) ==
  IF i > j THEN ""
  ELSE IF i = j THEN MapChar(m, Ch(t, i))
  ELSE LET h == (i + j) \div 2
       IN MapRange(m, t, i, h) \o MapRange(m, t, h + 1, j)

MapChars(m, t) == MapRange(m, t, 1, Len(t))

\* str.lower()
Lower(t) == MapChars(LowerMap, t)

RECURSIVE LStripFrom(_, _)
LStripFrom(t, i) ==
  IF i <= Len(t) /\ IsSpace(Ch(t, i)) THEN LStripFrom(t, i + 1) ELSE i

RECURSIVE RStripFrom(_, _)
RStripFrom(t, j) ==
  IF j >= 1 /\ IsSpace(Ch(t, j)) THEN RStripFrom(t, j - 1) ELSE j

\* str.strip()
Strip(t) ==
  LET i == LStripFrom(t, 1)
      j == RStripFrom(t, Len(t))
  IN IF i > j THEN "" ELSE SubSeq(t, i, j)

RECURSIVE Join(_, _, _)
\* sep.join(q[i..]) for a sequence q of strings
Join(sep, q, i) ==
  IF i > Len(q) THEN ""
  ELSE IF i = Len(q) THEN q[i]
  ELSE q[i] \o sep \o Join(sep, q, i + 1)

RECURSIVE Repr(_)
\* repr(v); str(v) differs only for a str
Repr(v) ==
  CASE Tag(v) = "none" -> "None"
    [] Tag(v) = "bool" -> IF Val(v) THEN "True" ELSE "False"
    [] Tag(v) = "int" -> ToString(Val(v))
    [] Tag(v) = "str" -> "'" \o Val(v) \o "'"
    [] Tag(v) = "list" ->
         "[" \o Join(", ", [i \in 1..Len(Val(v)) |-> Repr(Val(v)[i])], 1) \o "]"
    [] Tag(v) = "dict" ->
         "{" \o Join(", ", [i \in 1..Len(Val(v)) |->
                  "'" \o Val(v)[i][1] \o "': " \o Repr(Val(v)[i][2])], 1) \o "}"
    [] OTHER -> ""

\* str(v), as an f-string formats a value
Str(v) == IF Tag(v) = "str" THEN Val(v) ELSE Repr(v)

-----------------------------------------------------------------------------
(* json.loads: a recursive-descent parser of the JSON grammar, restricted   *)
(* to integer numbers and strings without escapes.  A parse result is       *)
(* [ok, val, pos]: pos is the index after the value.                        *)

Fail == [ok |-> FALSE, val |-> None, pos |-> 0]
Ok(v, p) == [ok |-> TRUE, val |-> v, pos |-> p]

RECURSIVE SkipWs(_, _)
SkipWs(t, i) == IF i <= Len(t) /\ IsSpace(Ch(t, i)) THEN SkipWs(t, i + 1) ELSE i

RECURSIVE StringEnd(_, _)
\* the index of the quote closing the string whose first character is at i,
\* 0 when there is none
StringEnd(t, i) ==
  IF i > Len(t) THEN 0
  ELSE IF Ch(t, i) = "\"" THEN i
  ELSE IF Ch(t, i) \in {"\\", "\n", "\r", "\t"} THEN 0
  ELSE StringEnd(t, i + 1)

ParseString(t, i) ==
  LET e == StringEnd(t, i + 1)
  IN IF Ch(t, i) # "\"" \/ e = 0 THEN Fail
     ELSE Ok(PyStr(SubSeq(t, i + 1, e - 1)), e + 1)

RECURSIVE DigitsEnd(_, _)
DigitsEnd(t, i) == IF IsDigit(Ch(t, i)) THEN DigitsEnd(t, i + 1) ELSE i

DigitVal(c) == CHOOSE d \in 0..9 : ToString(d) = c

RECURSIVE NatOf(_, _, _)
NatOf(t, i, e) == IF e < i THEN 0 ELSE NatOf(t, i, e - 1) * 10 + DigitVal(Ch(t, e))

ParseNumber(t, i) ==
  LET neg == Ch(t, i) = "-"
      s == IF neg THEN i + 1 ELSE i
      e == DigitsEnd(t, s)
  IN IF e = s THEN Fail
     ELSE IF Ch(t, s) = "0" /\ e > s + 1 THEN Ok(PyInt(0), s + 1)
     ELSE IF Ch(t, e) \in {".", "e", "E"} THEN Fail
     ELSE Ok(PyInt(IF neg THEN 0 - NatOf(t, s, e - 1) ELSE NatOf(t, s, e - 1)), e)

RECURSIVE ParseValue(_, _)
RECURSIVE ParseMembers(_, _, _)
RECURSIVE ParseElements(_, _, _)

\* the members of an object after "{" or ",": acc is the dict so far
ParseMembers(t, i, acc) ==
  LET k == ParseString(t, SkipWs(t, i))
  IN IF ~k.ok THEN Fail
     ELSE LET c == SkipWs(t, k.pos)
          IN IF Ch(t, c) # ":" THEN Fail
             ELSE LET v == ParseValue(t, SkipWs(t, c + 1))
                  IN IF ~v.ok THEN Fail
                     ELSE LET d == SetKey(acc, Val(k.val), v.val)
                              n == SkipWs(t, v.pos)
                          IN IF Ch(t, n) = "," THEN ParseMembers(t, n + 1, d)
                             ELSE IF Ch(t, n) = "}" THEN Ok(d, n + 1)
                             ELSE Fail

\* the elements of an array after "[" or ",": acc is the list so far
ParseElements(t, i, acc) ==
  LET v == ParseValue(t, SkipWs(t, i))
  IN IF ~v.ok THEN Fail
     ELSE LET q == Append(acc, v.val)
              n == SkipWs(t, v.pos)
          IN IF Ch(t, n) = "," THEN ParseElements(t, n + 1, q)
             ELSE IF Ch(t, n) = "]" THEN Ok(PyList(q), n + 1)
             ELSE Fail

ParseValue(t, i) ==
  LET c == Ch(t, i)
  IN CASE c = "{" ->
            IF Ch(t, SkipWs(t, i + 1)) = "}" THEN Ok(EmptyDict, SkipWs(t, i + 1) + 1)
            ELSE ParseMembers(t, i + 1, EmptyDict)
       [] c = "[" ->
            IF Ch(t, SkipWs(t, i + 1)) = "]" THEN Ok(EmptyList, SkipWs(t, i + 1) + 1)
            ELSE ParseElements(t, i + 1, << >>)
       [] c = "\"" -> ParseString(t, i)
       [] c = "-" \/ IsDigit(c) -> ParseNumber(t, i)
       [] c = "n" -> IF Slice(t, i, i + 3) = "null" THEN Ok(None, i + 4) ELSE Fail
       [] c = "t" -> IF Slice(t, i, i + 3) = "true" THEN Ok(PyBool(TRUE), i + 4) ELSE Fail
       [] c = "f" -> IF Slice(t, i, i + 4) = "false" THEN Ok(PyBool(FALSE), i + 5) ELSE Fail
       [] OTHER -> Fail

\* json.loads(t): the value, or EXC for json.JSONDecodeError
JsonLoads(t) ==
  LET r == ParseValue(t, SkipWs(t, 1))
  IN IF r.ok /\ SkipWs(t, r.pos) > Len(t) THEN r.val ELSE EXC

-----------------------------------------------------------------------------
(* Helpers of src/main.py *)

\* the indices of character c in t
IndicesOf(t, c) == {k \in 1..Len(t) : Ch(t, k) = c}

\* the least index of character c in t, 0 when there is none
FirstIndexOf(t, c) ==
  LET ks == IndicesOf(t, c)
  IN IF ks = {} THEN 0 ELSE CHOOSE k \in ks : \A m \in ks : k <= m

\* the greatest index of character c in t, 0 when there is none
LastIndexOf(t, c) ==
  LET ks == IndicesOf(t, c)
  IN IF ks = {} THEN 0 ELSE CHOOSE k \in ks : \A m \in ks : k >= m

\* re.search(r'\{[\s\S]*\}', text): <<first, last>> of the match, <<0, 0>>
\* when there is none.  The leftmost "{" with a "}" after it starts the
\* match, and the greedy [\s\S]* runs to the last "}".
BraceSpan(t) ==
  LET i == FirstIndexOf(t, "{")
      j == LastIndexOf(t, "}")
  IN IF i # 0 /\ j > i THEN <<i, j>> ELSE <<0, 0>>

\* a variant with a second attempt: the whole text is parsed when the span
\* is no JSON
safe_json_parse_two_step(text) ==
  LET m == BraceSpan(text)
      a == IF m[1] # 0 THEN JsonLoads(SubSeq(text, m[1], m[2])) ELSE EXC
      b == JsonLoads(text)
  IN IF ~IsExc(a) THEN a ELSE IF ~IsExc(b) THEN b ELSE EmptyDict

\* the span parsed, and nothing else, when there is a span; the whole text
\* parsed only when there is none; {} when the one parse made raises
safe_json_parse(text) ==
  LET m == BraceSpan(text)
      r == IF m[1] # 0 THEN JsonLoads(SubSeq(text, m[1], m[2]))
           ELSE JsonLoads(text)
  IN IF IsExc(r) THEN EmptyDict ELSE r

Outcomes == {"raise", "none", "blank", "native"}

\* what the provider does with the n-th translation call of an invocation
OutcomeOf(n) == oracle[((n - 1) % Len(oracle)) + 1]

LangName(target_lang) ==
  IF target_lang = "hi" THEN "Hindi"
  ELSE IF target_lang = "kn" THEN "Kannada" ELSE "English"

TranslatePrompt(text, target_lang) ==
  "Translate this to " \o LangName(target_lang)
    \o ". Return only the translated text:\n\n" \o Str(text)

HindiGlyph == [c \in LetterSet |-> "~"]
KannadaGlyph == [c \in LetterSet |-> "^"]

\* the provider's rendering of t in the language named: the letters of the
\* Latin alphabet become glyphs of the target script
Script(lang_name, t) ==
  CASE lang_name = "Hindi" -> MapChars(HindiGlyph, t)
    [] lang_name = "Kannada" -> MapChars(KannadaGlyph, t)
    [] OTHER -> t

\* resp.text of a translation call that returned
RespText(outcome, text, target_lang) ==
  CASE outcome = "none" -> None
    [] outcome = "blank" -> PyStr(" \n")
    [] OTHER -> PyStr(" " \o Script(LangName(target_lang), Str(text)) \o "\n")

\* a variant that sends the prompt a second time when the call raises
translate_text_retry(cs, text, target_lang) ==
  IF ~Truthy(text) \/ target_lang = "en"
  THEN [calls |-> cs, exc |-> FALSE, val |-> text]
  ELSE LET prompt == TranslatePrompt(text, target_lang)
       IN IF OutcomeOf(Len(cs) + 1) = "raise"
          THEN [calls |-> Append(Append(cs, prompt), prompt), exc |-> FALSE, val |-> text]
          ELSE [calls |-> Append(cs, prompt), exc |-> FALSE,
                val |-> PyStr(Strip(Val(PyOr(RespText(OutcomeOf(Len(cs) + 1), text,
                                                      target_lang), PyStr("")))))]

\* translate_text with the prompts sent so far: [calls, exc, val].  No call
\* for a falsy text or for "en"; otherwise one call, whose failure returns
\* the text as it was.
translate_text(cs, text, target_lang) ==
  IF ~Truthy(text) \/ target_lang = "en"
  THEN [calls |-> cs, exc |-> FALSE, val |-> text]
  ELSE LET n == Len(cs) + 1
           sent == Append(cs, TranslatePrompt(text, target_lang))
       IN IF OutcomeOf(n) = "raise"
          THEN [calls |-> sent, exc |-> FALSE, val |-> text]
          ELSE [calls |-> sent, exc |-> FALSE,
                val |-> PyStr(Strip(Val(PyOr(RespText(OutcomeOf(n), text, target_lang),
                                             PyStr("")))))]

\* a step of a handler: translate_text unless an exception is already in
\* flight or raised by evaluating the argument
TT(st, v, lang) ==
  IF st.exc \/ IsExc(v) THEN [calls |-> st.calls, exc |-> TRUE, val |-> EXC]
  ELSE translate_text(st.calls, v, lang)

RECURSIVE TranslateSeq(_, _, _, _, _)
\* [translate_text(x, lang) for x in q[i..]], acc the results so far
TranslateSeq(st, q, i, acc, lang) ==
  IF st.exc THEN [calls |-> st.calls, exc |-> TRUE, val |-> EXC]
  ELSE IF i > Len(q) THEN [calls |-> st.calls, exc |-> FALSE, val |-> PyList(acc)]
  ELSE Bind(TT(st, q[i], lang),
            LAMBDA r : TranslateSeq(r, q, i + 1, Append(acc, r.val), lang))

\* translate_list(items, lang): iterates items or []
translate_list(st, items, lang) ==
  LET it == Iter(PyOr(items, EmptyList))
  IN IF st.exc \/ IsExc(it) THEN [calls |-> st.calls, exc |-> TRUE, val |-> EXC]
     ELSE TranslateSeq(st, Val(it), 1, << >>, lang)

FallbackUrl == "https://www.bighaat.com/collections/pest-disease-management"

mapping ==
  << <<"mancozeb", "https://www.bighaat.com/products/indofil-m-45-mancozeb-75-wp-500-gm">>,
     <<"propiconazole", "https://www.bighaat.com/products/tilt-propiconazole-25-ec">>,
     <<"copper oxychloride", "https://www.bighaat.com/products/copper-oxychloride-50-wp-500gm">>,
     <<"carbendazim", "https://www.bighaat.com/products/bavistin-carbendazim-50-wp-100-gm">>,
     <<"sulphur", "https://www.bighaat.com/products/sulfex-80-wdg-sulphur-1-kg">>,
     <<"imidacloprid", "https://www.bighaat.com/products/command-imidacloprid-17-8-sl">>,
     <<"chlorpyrifos", "https://www.bighaat.com/collections/insecticides">>,
     <<"acetamiprid", "https://www.bighaat.com/collections/insecticides">>,
     <<"thiamethoxam", "https://www.bighaat.com/collections/insecticides">>,
     <<"neem", "https://www.bighaat.com/products/neem-oil-azadirachtin-300-ppm">>,
     <<"urea", "https://www.bighaat.com/collections/fertilizers">>,
     <<"npk", "https://www.bighaat.com/collections/fertilizers">>,
     <<"dap", "https://www.bighaat.com/collections/fertilizers">> >>

RECURSIVE LinkFrom(_, _)
\* the loop over mapping from entry i on
LinkFrom(t, i) ==
  IF i > Len(mapping) THEN FallbackUrl
  ELSE IF Contains(t, mapping[i][1]) THEN mapping[i][2]
  ELSE LinkFrom(t, i + 1)

\* a variant that matches the keywords without lowering the candidate
get_medicine_link_cased(primary_text) ==
  LET p == PyOr(primary_text, PyStr(""))
  IN IF Tag(p) # "str" THEN EXC ELSE PyStr(LinkFrom(Val(p), 1))

\* get_medicine_link(primary_text): AttributeError for a truthy non-str
get_medicine_link(primary_text) ==
  LET p == PyOr(primary_text, PyStr(""))
  IN IF Tag(p) # "str" THEN EXC ELSE PyStr(LinkFrom(Lower(Val(p)), 1))

\* ask_gemini_json: the model call may raise; resp.text may be None
ask_gemini_json(g) ==
  CASE g.kind = "raise" -> EXC
    [] g.kind = "none" -> safe_json_parse("")
    [] OTHER -> safe_json_parse(g.text)

-----------------------------------------------------------------------------
(* Request handlers.  A handler's result is [status, body, calls]: the HTTP *)
(* status, the JSON payload (or the error detail) and the translation       *)
(* prompts sent.                                                            *)

Http(status, detail, cs) == [status |-> status, body |-> PyStr(detail), calls |-> cs]
Payload(d, cs) == [status |-> 200, body |-> d, calls |-> cs]

Start == [calls |-> << >>, exc |-> FALSE, val |-> None]
Raised(st) == [calls |-> st.calls, exc |-> TRUE, val |-> EXC]

\* s not in obj
PyNotIn(s, obj) ==
  LET r == PyIn(s, obj) IN IF IsExc(r) THEN EXC ELSE PyBool(~Val(r))

\* not data or key not in data
Rejects(data, key) ==
  IF IsExc(data) THEN EXC
  ELSE IF ~Truthy(data) THEN PyBool(TRUE) ELSE PyNotIn(key, data)

RECURSIVE TranslateFields(_, _, _, _, _)
\* d[f] = translate_text(d.get(f, ""), lang) for f in fields[i..]
TranslateFields(st, d, fields, i, lang) ==
  IF st.exc THEN Raised(st)
  ELSE IF i > Len(fields) THEN [calls |-> st.calls, exc |-> FALSE, val |-> d]
  ELSE Bind(TT(st, PyGet(d, fields[i], PyStr("")), lang),
            LAMBDA r : IF r.exc THEN r
                       ELSE TranslateFields(r, SetKey(d, fields[i], r.val),
                                            fields, i + 1, lang))

\* a variant that leaves the type of an issue alone
IssueFieldsWithoutType == <<"name", "severity">>

\* the fields of an issue that lines 210-212 translate
IssueFields == <<"name", "type", "severity">>

\* the list field of an issue that line 213 translates
IssueLists == <<"evidence">>

\* the fields translated by "for c in chemical" and "for f in fertilizer_plan"
ProductFields == <<"product", "dose", "notes">>

\* the fields translated by "for o in organic"
MethodFields == <<"method", "dose", "notes">>

RECURSIVE TranslateLists(_, _, _, _, _)
\* d[f] = translate_list(d.get(f, []), lang) for f in fields[i..]
TranslateLists(st, d, fields, i, lang) ==
  IF st.exc THEN Raised(st)
  ELSE IF i > Len(fields) THEN [calls |-> st.calls, exc |-> FALSE, val |-> d]
  ELSE Bind(translate_list(st, PyGet(d, fields[i], EmptyList), lang),
            LAMBDA r : IF r.exc THEN Raised(r)
                       ELSE TranslateLists(r, SetKey(d, fields[i], r.val),
                                           fields, i + 1, lang))

\* the body of a loop over entries: the string fields, then the list fields
TranslateEntry(st, x, fields, lists, lang) ==
  Bind(TranslateFields(st, x, fields, 1, lang),
       LAMBDA a : IF a.exc THEN Raised(a) ELSE TranslateLists(a, a.val, lists, 1, lang))

RECURSIVE ForEach(_, _, _, _, _, _, _)
\* the iterations of a loop over q from the i-th on, acc the entries done
ForEach(st, q, i, acc, fields, lists, lang) ==
  IF st.exc THEN Raised(st)
  ELSE IF i > Len(q) THEN [calls |-> st.calls, exc |-> FALSE, val |-> acc]
  ELSE Bind(TranslateEntry(st, q[i], fields, lists, lang),
            LAMBDA r : ForEach(r, q, i + 1, Append(acc, r.val), fields, lists, lang))

\* "for x in obj: x[f] = translate_text(x.get(f, ""), lang) ...": val is obj
\* after the loop (the entries of a list are mutated in place)
ForLoop(st, obj, fields, lists, lang) ==
  IF st.exc \/ IsExc(obj) \/ IsExc(Iter(obj)) THEN Raised(st)
  ELSE Bind(ForEach(st, Val(Iter(obj)), 1, << >>, fields, lists, lang),
            LAMBDA r : IF r.exc THEN Raised(r)
                       ELSE [calls |-> r.calls, exc |-> FALSE,
                             val |-> IF Tag(obj) = "list" THEN PyList(r.val) ELSE obj])

\* d with d[k], a list that was looped over, as the loop left it
Mutated(d, k, before, after) ==
  IF Tag(d) = "dict" /\ HasKey(d, k) /\ Tag(before) = "list" /\ Truthy(before)
  THEN SetKey(d, k, after) ELSE d

\* lines 188-205 of analyze_plant: the fields read, the English summary and
\* the link; raised when one of the statements raises
plant_extract(data) ==
  LET plant == PyGet(data, "plant", EmptyDict)
      health == PyGet(data, "health", EmptyDict)
      issues == PyGet(data, "issues", EmptyList)
      treatment == PyGet(data, "treatment", EmptyDict)
      common == PyOr(PyGet(plant, "common_name", None), PyStr("Unknown plant"))
      sci == PyOr(PyGet(plant, "scientific_name", None), PyStr(""))
      score == PyGet(health, "score", PyInt(0))
      first_issue ==
        IF IsExc(issues) THEN EXC
        ELSE PyOr(IF Truthy(issues) THEN PyGet(Index0(issues), "name", None)
                  ELSE PyStr(""), PyStr(""))
      first_chem ==
        PyOr(PyGet(Index0(PyOr(PyGet(treatment, "chemical", None),
                               PyList(<<EmptyDict>>))), "product", None), PyStr(""))
  IN [plant |-> plant,
      health |-> health,
      issues |-> issues,
      treatment |-> treatment,
      prevention |-> PyGet(data, "prevention", EmptyList),
      chemical |-> PyOr(PyGet(treatment, "chemical", None), EmptyList),
      organic |-> PyOr(PyGet(treatment, "organic", None), EmptyList),
      summary_en |->
        "Identified: " \o Str(common)
          \o (IF Truthy(sci) THEN " (" \o Str(sci) \o ")" ELSE "")
          \o ". Health score: " \o Str(score) \o "/100."
          \o (IF Truthy(first_issue) THEN " Primary issue: " \o Str(first_issue) \o "." ELSE "")
          \o (IF Truthy(first_chem) THEN " Recommended treatment: " \o Str(first_chem) \o "." ELSE ""),
      buy_url |-> get_medicine_link(PyOr(first_chem, PyOr(first_issue, common))),
      raised |-> IsExc(common) \/ IsExc(sci) \/ IsExc(score) \/ IsExc(first_issue)
                   \/ IsExc(first_chem)]

\* lines 188-233 of analyze_plant
plant_payload(data, lang) ==
  Bind(plant_extract(data), LAMBDA x :
    IF x.raised \/ IsExc(x.buy_url)
    THEN Http(500, "Failed to analyze plant image.", << >>)
    ELSE
    Bind(TT(Start, PyStr(x.summary_en), lang), LAMBDA s1 :
    Bind(ForLoop(s1, x.issues, IssueFields, IssueLists, lang), LAMBDA s2 :
    Bind(ForLoop(s2, x.chemical, ProductFields, << >>, lang), LAMBDA s3 :
    Bind(ForLoop(s3, x.organic, MethodFields, << >>, lang), LAMBDA s4 :
    Bind(translate_list(s4, x.prevention, lang), LAMBDA s5 :
      IF s5.exc THEN Http(500, "Failed to analyze plant image.", s5.calls)
      ELSE Payload(PyDict(<<
             <<"success", PyBool(TRUE)>>,
             <<"plant", x.plant>>,
             <<"health", x.health>>,
             <<"issues", s2.val>>,
             <<"treatment", Mutated(Mutated(x.treatment, "chemical", x.chemical, s3.val),
                                    "organic", x.organic, s4.val)>>,
             <<"prevention", s5.val>>,
             <<"summary", s1.val>>,
             <<"medicine_links", PyDict(<< <<"url", x.buy_url>> >>)>> >>), s5.calls)))))))

analyze_plant(lang, img, g) ==
  Bind(IF img THEN ask_gemini_json(g) ELSE EXC, LAMBDA data :
    Bind(Rejects(data, "plant"), LAMBDA reject :
      IF IsExc(reject) THEN Http(500, "Failed to analyze plant image.", << >>)
      ELSE IF Val(reject)
      THEN Http(422, "AI could not extract plant details. Try a clearer image.", << >>)
      ELSE plant_payload(data, lang)))

\* ', '.join(crops[:3]): TypeError for a dict, an int or a bool, and for an
\* element that is no str
JoinFirst3(crops) ==
  LET it == IF Tag(crops) \in {"list", "str"} THEN Iter(crops) ELSE EXC
  IN IF IsExc(it) THEN EXC
     ELSE LET q == SubSeq(Val(it), 1, IF Len(Val(it)) < 3 THEN Len(Val(it)) ELSE 3)
          IN IF \E i \in 1..Len(q) : Tag(q[i]) # "str" THEN EXC
             ELSE PyStr(Join(", ", [i \in 1..Len(q) |-> Val(q[i])], 1))

\* lines 249-259 of analyze_soil
soil_extract(data) ==
  LET soil == PyGet(data, "soil", EmptyDict)
      health == PyGet(data, "health", EmptyDict)
      suitable_crops == PyGet(data, "suitable_crops", EmptyList)
      soil_type == PyGet(soil, "type", PyStr("Soil"))
      ph == PyGet(health, "ph_estimate", PyStr(""))
      om == PyGet(health, "organic_matter", PyStr(""))
      crops == IF IsExc(suitable_crops) THEN EXC
               ELSE IF Truthy(suitable_crops) THEN JoinFirst3(suitable_crops)
               ELSE PyStr("N/A")
  IN [soil |-> soil,
      health |-> health,
      nutrients |-> PyGet(data, "nutrients", EmptyDict),
      suitable_crops |-> suitable_crops,
      recommendations |-> PyGet(data, "recommendations", EmptyList),
      fertilizer_plan |-> PyGet(data, "fertilizer_plan", EmptyList),
      summary_en |->
        Str(soil_type) \o " detected. pH: " \o Str(PyOr(ph, PyStr("N/A")))
          \o ", Organic matter: " \o Str(PyOr(om, PyStr("N/A")))
          \o ". Recommended crops: " \o Str(crops) \o ".",
      raised |-> IsExc(soil_type) \/ IsExc(ph) \/ IsExc(om) \/ IsExc(crops)]

\* line 269 of analyze_soil, read from the plan the loop has translated
first_fert(plan) ==
  PyOr(IF Truthy(plan) THEN PyGet(Index0(plan), "product", EXC) ELSE PyStr(""),
       PyStr("fertilizer"))

\* lines 249-282 of analyze_soil
soil_payload(data, lang) ==
  Bind(soil_extract(data), LAMBDA x :
    IF x.raised THEN Http(500, "Failed to analyze soil image.", << >>)
    ELSE
    Bind(TT(Start, PyStr(x.summary_en), lang), LAMBDA s1 :
    Bind(translate_list(s1, x.suitable_crops, lang), LAMBDA s2 :
    Bind(translate_list(s2, x.recommendations, lang), LAMBDA s3 :
    Bind(ForLoop(s3, x.fertilizer_plan, ProductFields, << >>, lang), LAMBDA s4 :
    Bind(IF s4.exc THEN EXC ELSE get_medicine_link(first_fert(s4.val)), LAMBDA buy_url :
      IF IsExc(buy_url) THEN Http(500, "Failed to analyze soil image.", s4.calls)
      ELSE Payload(PyDict(<<
             <<"success", PyBool(TRUE)>>,
             <<"soil", x.soil>>,
             <<"health", x.health>>,
             <<"nutrients", x.nutrients>>,
             <<"suitable_crops", s2.val>>,
             <<"recommendations", s3.val>>,
             <<"fertilizer_plan", s4.val>>,
             <<"summary", s1.val>>,
             <<"medicine_links", PyDict(<< <<"url", buy_url>> >>)>> >>), s4.calls)))))))

analyze_soil(lang, img, g) ==
  Bind(IF img THEN ask_gemini_json(g) ELSE EXC, LAMBDA data :
    Bind(Rejects(data, "soil"), LAMBDA reject :
      IF IsExc(reject) THEN Http(500, "Failed to analyze soil image.", << >>)
      ELSE IF Val(reject)
      THEN Http(422, "AI could not extract soil details. Try a clearer image.", << >>)
      ELSE soil_payload(data, lang)))

\* lines 298-307 of analyze_pest
pest_extract(data) ==
  LET pest == PyGet(data, "pest", EmptyDict)
      damage == PyGet(data, "damage", EmptyDict)
      control == PyGet(data, "control", EmptyDict)
      cname == PyGet(pest, "common_name", PyStr("Pest"))
      sev == PyGet(damage, "severity", PyInt(0))
      chem_first ==
        PyGet(Index0(PyOr(PyGet(control, "chemical", None), PyList(<<EmptyDict>>))),
              "product", PyStr(""))
  IN [pest |-> pest,
      damage |-> damage,
      hosts |-> PyGet(data, "hosts", EmptyDict),
      control |-> control,
      prevention |-> PyGet(data, "prevention", EmptyList),
      chemical |-> PyOr(PyGet(control, "chemical", None), EmptyList),
      organic |-> PyOr(PyGet(control, "organic", None), EmptyList),
      summary_en |->
        Str(cname) \o " detected. Damage severity: " \o Str(sev)
          \o "%. Recommended treatment: "
          \o Str(PyOr(chem_first, PyStr("See control measures"))) \o ".",
      link_text |-> PyOr(chem_first, cname),
      raised |-> IsExc(cname) \/ IsExc(sev) \/ IsExc(chem_first)]

\* lines 298-331 of analyze_pest
pest_payload(data, lang) ==
  Bind(pest_extract(data), LAMBDA x :
    IF x.raised THEN Http(500, "Failed to analyze pest image.", << >>)
    ELSE
    Bind(TT(Start, PyStr(x.summary_en), lang), LAMBDA s1 :
    Bind(ForLoop(s1, x.chemical, ProductFields, << >>, lang), LAMBDA s2 :
    Bind(ForLoop(s2, x.organic, MethodFields, << >>, lang), LAMBDA s3 :
    Bind(translate_list(s3, x.prevention, lang), LAMBDA s4 :
    Bind(IF s4.exc THEN EXC ELSE get_medicine_link(x.link_text), LAMBDA buy_url :
      IF IsExc(buy_url) THEN Http(500, "Failed to analyze pest image.", s4.calls)
      ELSE Payload(PyDict(<<
             <<"success", PyBool(TRUE)>>,
             <<"pest", x.pest>>,
             <<"damage", x.damage>>,
             <<"hosts", x.hosts>>,
             <<"control", Mutated(Mutated(x.control, "chemical", x.chemical, s2.val),
                                  "organic", x.organic, s3.val)>>,
             <<"prevention", s4.val>>,
             <<"summary", s1.val>>,
             <<"medicine_links", PyDict(<< <<"url", buy_url>> >>)>> >>), s4.calls)))))))

analyze_pest(lang, img, g) ==
  Bind(IF img THEN ask_gemini_json(g) ELSE EXC, LAMBDA data :
    Bind(Rejects(data, "pest"), LAMBDA reject :
      IF IsExc(reject) THEN Http(500, "Failed to analyze pest image.", << >>)
      ELSE IF Val(reject)
      THEN Http(422, "AI could not extract pest details. Try a clearer image.", << >>)
      ELSE pest_payload(data, lang)))

\* a variant that looks for "yes" without lowering the answer
is_agri_cased(g) ==
  Contains(Strip(IF g.kind = "none" THEN "" ELSE g.text), "yes")

\* "yes" in (resp.text or "").strip().lower()
is_agri(g) ==
  Contains(Lower(Strip(IF g.kind = "none" THEN "" ELSE g.text)), "yes")

validate_image(lang, img, g) ==
  IF ~img \/ g.kind = "raise"
  THEN Payload(PyDict(<<
         <<"success", PyBool(FALSE)>>,
         <<"is_agricultural", PyBool(FALSE)>>,
         <<"message", PyStr("Validation failed, please try again.")>> >>), << >>)
  ELSE LET message == IF is_agri(g) THEN "Image validated successfully"
                      ELSE "Please upload an agriculture-related image"
           m == translate_text(<< >>, PyStr(message), lang)
       IN Payload(PyDict(<<
            <<"success", PyBool(TRUE)>>,
            <<"is_agricultural", PyBool(is_agri(g))>>,
            <<"message", m.val>> >>), m.calls)

-----------------------------------------------------------------------------
(* Inputs: the invocations a behaviour may start from *)

\* entries of a generated list (issues, chemical, fertilizer_plan, ...)
MaxItems == 2
\* the provider's outcomes repeat with this period over an invocation's calls
OraclePeriod == 2
\* fragments concatenated into a candidate of get_medicine_link
MaxFragments == 2

Languages == {"en", "hi", "kn", "ta"}

Oracles == [1..OraclePeriod -> Outcomes]
NoOracle == [i \in 1..OraclePeriod |-> "native"]

\* no translation call is made for "en": the provider's behaviour is then fixed
LangOracles ==
  {<<"en", NoOracle>>} \cup ((Languages \ {"en"}) \X Oracles)

D1(k1, v1) == PyDict(<< <<k1, v1>> >>)
D2(k1, v1, k2, v2) == PyDict(<< <<k1, v1>>, <<k2, v2>> >>)
D3(k1, v1, k2, v2, k3, v3) == PyDict(<< <<k1, v1>>, <<k2, v2>>, <<k3, v3>> >>)
L1(s) == PyList(<<PyStr(s)>>)

\* d without key k
Without(d, k) == PyDict(SelectSeq(Val(d), LAMBDA kv : kv[1] # k))

Prefix(q, n) == SubSeq(q, 1, IF n < Len(q) THEN n ELSE Len(q))

RECURSIVE Dumps(_)
\* json.dumps(v): the JSON text of a value
Dumps(v) ==
  CASE Tag(v) = "none" -> "null"
    [] Tag(v) = "bool" -> IF Val(v) THEN "true" ELSE "false"
    [] Tag(v) = "int" -> ToString(Val(v))
    [] Tag(v) = "str" -> "\"" \o Val(v) \o "\""
    [] Tag(v) = "list" ->
         "[" \o Join(", ", [i \in 1..Len(Val(v)) |-> Dumps(Val(v)[i])], 1) \o "]"
    [] Tag(v) = "dict" ->
         "{" \o Join(", ", [i \in 1..Len(Val(v)) |->
                  "\"" \o Val(v)[i][1] \o "\": " \o Dumps(Val(v)[i][2])], 1) \o "}"
    [] OTHER -> ""

\* what the generative model answers to the image prompt:
\*   raise      the call raises
\*   none       resp.text is None
\*   object     text = prose, the JSON text of the dict doc, prose
\*   scalar     text = the JSON text of doc, no dict, and has no {...} span
\*   bracejson  text = the JSON text of doc, no dict, whose strings hold a {...} span
\*   prose      text is no JSON and has no {...} span
\*   broken     text has a {...} span that is no JSON, and is no JSON itself
\*   answer     text answers the yes/no question; doc says whether it holds "yes"
G(kind, text, doc) == [kind |-> kind, text |-> text, doc |-> doc]
GRaise == G("raise", "", None)
GNone == G("none", "", None)
NoGen == G("unused", "", None)

Scalars ==
  {PyInt(5), PyInt(0), PyBool(TRUE), None, PyStr("plant soil pest"), PyStr(""),
   PyList(<<PyInt(1), PyInt(2)>>), EmptyList, PyStr("} {"),
   PyList(<<PyStr("plant"), PyStr("soil"), PyStr("pest")>>)}

BraceJson == {PyStr("{a}"), PyList(<<PyStr("{"), PyStr("}")>>)}

Prose == {"", "I could not analyze this image.", "} nothing {", "plant: tomato"}

Broken == {"{plant: tomato}", "{\"plant\": {}", "{\"plant\": {}} and {\"soil\": {}}",
           "{'plant': {}}"}

NonObjects ==
  {G("scalar", Dumps(v), v) : v \in Scalars}
    \cup {G("bracejson", Dumps(v), v) : v \in BraceJson}
    \cup {G("prose", t, None) : t \in Prose}
    \cup {G("broken", t, None) : t \in Broken}

Wrapped(d) == G("object", "Here is data: " \o Dumps(d) \o " thanks\n", d)
Bare(d) == G("object", Dumps(d), d)

\* values of unexpected shape for a key of the answer
Shapes == {None, EmptyDict, EmptyList, PyStr("x"), PyInt(5)}

\* doc with each of its keys in turn removed or replaced by an unexpected shape
Deviations(doc) ==
  {Without(doc, Val(doc)[i][1]) : i \in 1..Len(Val(doc))}
    \cup {SetKey(doc, Val(doc)[i][1], v) : i \in 1..Len(Val(doc)), v \in Shapes}

IssueList ==
  << PyDict(<< <<"name", PyStr("Early blight")>>, <<"type", PyStr("disease")>>,
               <<"severity", PyStr("moderate")>>, <<"evidence", L1("leaf spots")>> >>),
     D2("name", PyStr("Aphids"), "type", PyStr("pest")),
     D2("name", PyStr(""), "severity", PyStr("mild")) >>

ChemicalList ==
  << D3("product", PyStr("Mancozeb 75 WP"), "dose", PyStr("2 g"), "notes", PyStr("")),
     D1("product", PyStr("Neem oil")),
     D2("product", PyStr(""), "dose", PyStr("1 l")) >>

FertilizerList ==
  << D2("product", PyStr("Urea"), "dose", PyStr("50 kg")),
     D3("product", PyStr("DAP"), "dose", PyStr(""), "notes", PyStr("basal")),
     D1("product", PyStr("")) >>

OrganicList == << D2("method", PyStr("Neem spray"), "notes", PyStr("weekly")) >>

CropList == <<PyStr("Wheat"), PyStr("Maize"), PyStr("Gram"), PyStr("Rice")>>

PlantDoc(ni, nc) ==
  PyDict(<<
    <<"plant", D2("common_name", PyStr("Tomato"), "scientific_name", PyStr("Solanum"))>>,
    <<"health", D2("score", PyInt(80), "observations", L1("wilting"))>>,
    <<"issues", PyList(Prefix(IssueList, ni))>>,
    <<"treatment", D2("chemical", PyList(Prefix(ChemicalList, nc)),
                      "organic", PyList(OrganicList))>>,
    <<"prevention", L1("Rotate crops")>> >>)

SoilDoc(ncrops, nf) ==
  PyDict(<<
    <<"soil", D2("type", PyStr("Loam"), "color", PyStr("brown"))>>,
    <<"health", D2("ph_estimate", PyStr("6.5-7.0"), "organic_matter", PyStr("medium"))>>,
    <<"nutrients", D1("nitrogen", PyStr("low"))>>,
    <<"suitable_crops", PyList(Prefix(CropList, ncrops))>>,
    <<"recommendations", L1("Add compost")>>,
    <<"fertilizer_plan", PyList(Prefix(FertilizerList, nf))>> >>)

PestDoc(nc, no) ==
  PyDict(<<
    <<"pest", D2("common_name", PyStr("Whitefly"), "life_stage", PyStr("adult"))>>,
    <<"damage", D2("severity", PyInt(40), "pattern", PyStr("curling"))>>,
    <<"hosts", D1("primary", L1("Cotton"))>>,
    <<"control", D2("chemical", PyList(Prefix(ChemicalList, nc)),
                    "organic", PyList(Prefix(OrganicList, no)))>>,
    <<"prevention", L1("Yellow traps")>> >>)

\* answers whose inner fields are missing, null or of another shape
PlantOdd ==
  {D1("plant", EmptyDict),
   D1("plant", None),
   D2("plant", D1("common_name", None), "issues", L1("Blight")),
   D2("plant", D1("common_name", PyStr("Neem")), "issues", PyList(<<D1("type", PyStr("pest"))>>)),
   D2("plant", EmptyDict, "treatment", D1("chemical", None)),
   D2("plant", EmptyDict, "treatment", D1("chemical", PyList(<<D1("product", PyInt(5))>>))),
   D2("plant", EmptyDict, "prevention", PyStr("ab"))}

SoilOdd ==
  {D1("soil", EmptyDict),
   D1("soil", None),
   D2("soil", EmptyDict, "suitable_crops", PyList(<<PyInt(1)>>)),
   D2("soil", EmptyDict, "suitable_crops", PyStr("Rice")),
   D2("soil", EmptyDict, "fertilizer_plan", PyList(<<D1("product", PyInt(5))>>)),
   D2("soil", EmptyDict, "fertilizer_plan", PyList(<<D1("product", PyStr("NPK 19:19:19"))>>)),
   D2("soil", EmptyDict, "fertilizer_plan", PyList(<<EmptyDict>>))}

PestOdd ==
  {D1("pest", EmptyDict),
   D1("pest", None),
   D2("pest", D1("common_name", None), "control", D1("chemical", PyList(<<D1("product", None)>>))),
   D2("pest", D1("common_name", PyStr("Thrips")), "control", D1("chemical", None)),
   D2("pest", D1("common_name", PyInt(7)), "control", EmptyDict),
   D2("pest", EmptyDict, "control", D1("organic", PyList(<<None>>)))}

PlantDocs ==
  {PlantDoc(ni, nc) : ni \in 0..MaxItems, nc \in 0..MaxItems}
    \cup Deviations(PlantDoc(1, 1)) \cup PlantOdd

SoilDocs ==
  {SoilDoc(ncrops, nf) : ncrops \in 0..(MaxItems + 2), nf \in 0..MaxItems}
    \cup Deviations(SoilDoc(1, 1)) \cup SoilOdd

PestDocs ==
  {PestDoc(nc, no) : nc \in 0..MaxItems, no \in 0..1}
    \cup Deviations(PestDoc(1, 1)) \cup PestOdd

PlantGens == {Wrapped(PlantDoc(1, 1))} \cup {Bare(d) : d \in PlantDocs}
SoilGens == {Wrapped(SoilDoc(1, 1))} \cup {Bare(d) : d \in SoilDocs}
PestGens == {Wrapped(PestDoc(1, 1))} \cup {Bare(d) : d \in PestDocs}

\* the texts safe_json_parse is applied to
ParseGens ==
  NonObjects
    \cup {Bare(d) : d \in PlantDocs \cup SoilDocs \cup PestDocs \cup {EmptyDict}}
    \cup {Wrapped(d) : d \in PlantDocs \cup SoilDocs \cup PestDocs \cup {EmptyDict}}

Answer(text, yes) == G("answer", text, PyBool(yes))

ValidateGens ==
  {GRaise, GNone,
   Answer("Yes", TRUE), Answer("Yes, this is a crop.", TRUE), Answer(" YES \n", TRUE),
   Answer("yEs", TRUE), Answer("The answer is: Yes", TRUE), Answer("Eyes of a cat", TRUE),
   Answer("No.", FALSE), Answer("no", FALSE), Answer("", FALSE), Answer("  \n", FALSE),
   Answer("y e s", FALSE), Answer("Ye", FALSE), Answer("Maybe", FALSE)}

TextArgs ==
  {None, PyStr(""), PyInt(0), PyStr("Hello"), PyStr("Apply Urea 50 kg"), PyInt(7),
   PyStr(" padded "), L1("Wheat")}

ListElems == {PyStr(""), PyStr("Wheat"), PyStr("Rotate crops")}

ListArgs ==
  {None} \cup {PyList(q) : q \in UNION {[1..n -> ListElems] : n \in 0..MaxItems}}

Fragments ==
  {"Mancozeb", "UREA", "neem", "Dap", "Apply ", " 75 WP", "unknown substance",
   "Copper Oxychloride", "copper  oxychloride", "Sulphur", "NPK", "ure", "a"}

Candidates ==
  {None, PyStr("")}
    \cup {PyStr(Join("", q, 1)) : q \in UNION {[1..n -> Fragments] : n \in 1..MaxFragments}}

-----------------------------------------------------------------------------
(* The state machine *)

\* the invocation a behaviour starts from
Invocation(o, a, lo, img, g) ==
  /\ op = o
  /\ arg = a
  /\ language = lo[1]
  /\ oracle = lo[2]
  /\ image_ok = img
  /\ gen = g

\* a request to an endpoint; one with an undecodable image is tried once per
\* language
Request(o, gens) ==
  \/ \E lo \in LangOracles, g \in gens : Invocation(o, None, lo, TRUE, g)
  \/ \E l \in Languages : Invocation(o, None, <<l, NoOracle>>, FALSE, GNone)

\* an analysis request: an answer that is no object ends the request before
\* the first translation call, so that it is tried once per language
Analysis(o, gens) ==
  \/ Request(o, gens)
  \/ \E l \in Languages, g \in {GRaise, GNone} \cup NonObjects :
        Invocation(o, None, <<l, NoOracle>>, TRUE, g)

Init ==
  /\ pc = "pending"
  /\ ret = None
  /\ calls = << >>
  /\ \/ \E g \in ParseGens :
          Invocation("safe_json_parse", None, <<"en", NoOracle>>, TRUE, g)
     \/ \E c \in Candidates :
          Invocation("get_medicine_link", c, <<"en", NoOracle>>, TRUE, NoGen)
     \/ \E a \in TextArgs, lo \in LangOracles :
          Invocation("translate_text", a, lo, TRUE, NoGen)
     \/ \E a \in ListArgs, lo \in LangOracles :
          Invocation("translate_list", a, lo, TRUE, NoGen)
     \/ Request("validate_image", ValidateGens)
     \/ Analysis("analyze_plant", PlantGens)
     \/ Analysis("analyze_soil", SoilGens)
     \/ Analysis("analyze_pest", PestGens)

Return(v, cs) ==
  /\ ret' = v
  /\ calls' = cs
  /\ pc' = "done"
  /\ UNCHANGED <<op, arg, language, image_ok, gen, oracle>>

Respond(r) == Return([status |-> r.status, body |-> r.body], r.calls)

SafeJsonParse ==
  /\ pc = "pending" /\ op = "safe_json_parse"
  /\ Return(safe_json_parse(gen.text), << >>)

GetMedicineLink ==
  /\ pc = "pending" /\ op = "get_medicine_link"
  /\ Return(get_medicine_link(arg), << >>)

TranslateText ==
  /\ pc = "pending" /\ op = "translate_text"
  /\ LET r == translate_text(<< >>, arg, language) IN Return(r.val, r.calls)

TranslateList ==
  /\ pc = "pending" /\ op = "translate_list"
  /\ LET r == translate_list(Start, arg, language) IN Return(r.val, r.calls)

ValidateImage ==
  /\ pc = "pending" /\ op = "validate_image"
  /\ Respond(validate_image(language, image_ok, gen))

AnalyzePlant ==
  /\ pc = "pending" /\ op = "analyze_plant"
  /\ Respond(analyze_plant(language, image_ok, gen))

AnalyzeSoil ==
  /\ pc = "pending" /\ op = "analyze_soil"
  /\ Respond(analyze_soil(language, image_ok, gen))

AnalyzePest ==
  /\ pc = "pending" /\ op = "analyze_pest"
  /\ Respond(analyze_pest(language, image_ok, gen))

Next ==
  \/ SafeJsonParse
  \/ GetMedicineLink
  \/ TranslateText
  \/ TranslateList
  \/ ValidateImage
  \/ AnalyzePlant
  \/ AnalyzeSoil
  \/ AnalyzePest

Spec == Init /\ [][Next]_vars

-----------------------------------------------------------------------------
(* Properties *)

Done == pc = "done"

AnalysisOps == {"analyze_plant", "analyze_soil", "analyze_pest"}

\* an analysis request whose image decoded: the model was asked
Analysed == Done /\ op \in AnalysisOps /\ image_ok

Succeeded == Analysed /\ ret.status = 200

RootKeyOf(o) ==
  CASE o = "analyze_plant" -> "plant"
    [] o = "analyze_soil" -> "soil"
    [] OTHER -> "pest"

DeclaredKeys(o) ==
  CASE o = "analyze_plant" -> {"plant", "health", "issues", "treatment", "prevention"}
    [] o = "analyze_soil" -> {"soil", "health", "nutrients", "suitable_crops",
                              "recommendations", "fertilizer_plan"}
    [] OTHER -> {"pest", "damage", "hosts", "control", "prevention"}

\* the answers that follow the schema of the prompt
SchemaDocs(o) ==
  CASE o = "analyze_plant" -> {PlantDoc(ni, nc) : ni \in 0..MaxItems, nc \in 0..MaxItems}
    [] o = "analyze_soil" ->
         {SoilDoc(ncrops, nf) : ncrops \in 0..(MaxItems + 2), nf \in 0..MaxItems}
    [] OTHER -> {PestDoc(nc, no) : nc \in 0..MaxItems, no \in 0..1}

\* a successful analysis of an answer that follows the schema
SucceededOnSchema == Succeeded /\ gen.kind = "object" /\ gen.doc \in SchemaDocs(op)

At2(d, k1, k2) == Lookup(Lookup(d, k1), k2)

EndsWith(s, t) ==
  Len(t) = 0 \/ (Len(s) >= Len(t) /\ SubSeq(s, Len(s) - Len(t) + 1, Len(s)) = t)

\* a translation prompt was sent for the text t
CallFor(t) == \E n \in 1..Len(calls) : EndsWith(calls[n], "\n\n" \o t)

SameLetter(a, b) == a = b \/ \E i \in 1..26 : {a, b} = {Upper[i], LowerOf[i]}

\* needle occurs in hay, the case of letters ignored
OccursIgnoringCase(needle, hay) ==
  \E i \in 1..(Len(hay) - Len(needle) + 1) :
     \A k \in 1..Len(needle) : SameLetter(Ch(hay, i + k - 1), Ch(needle, k))

\* C1: an analysis request whose model answer holds no parseable JSON object
\* (no JSON at all, or JSON that is no object) ends with HTTP 422, never 500.
C1_NoObjectEndsIn422 ==
  (Analysed /\ gen.kind \in {"none", "scalar", "bracejson", "prose", "broken"})
    => ret.status = 422

\* C2: an analysis request whose model answer is a JSON object holding the
\* root key of the domain ends in a success payload with every declared
\* sub-field, the summary and the medicine link, whatever the values are.
C2_RootKeyEndsInSuccess ==
  (Analysed /\ gen.kind = "object" /\ HasKey(gen.doc, RootKeyOf(op)))
    => /\ ret.status = 200
       /\ Tag(ret.body) = "dict"
       /\ PyGet(ret.body, "success", None) = PyBool(TRUE)
       /\ \A k \in DeclaredKeys(op) \cup {"summary", "medicine_links"} :
             HasKey(ret.body, k)

\* C3: safe_json_parse returns a mapping for every text, and the empty
\* mapping for a text without braces.
C3_AlwaysAMapping ==
  (Done /\ op = "safe_json_parse")
    => /\ Tag(ret) = "dict"
       /\ (IndicesOf(gen.text, "{") = {} /\ IndicesOf(gen.text, "}") = {})
            => ret = EmptyDict

\* C4: for a non-empty text and a language other than en, translate_text
\* returns the text unchanged when the call raises or the provider's response
\* is empty.
C4_FailureReturnsOriginal ==
  (Done /\ op = "translate_text" /\ Tag(arg) = "str" /\ Val(arg) # ""
     /\ language # "en" /\ oracle[1] \in {"raise", "none"})
    => ret = arg

NonEmpty(q) == SelectSeq(q, LAMBDA x : Truthy(x))

\* C5: translate_text sends no prompt and returns its input for en or a
\* falsy input, and exactly one prompt otherwise, also when the call fails;
\* translate_list sends one prompt per non-empty element, in list order, and
\* none for en.
C5_CallCount ==
  /\ (Done /\ op = "translate_text")
       => IF language = "en" \/ ~Truthy(arg) THEN calls = << >> /\ ret = arg
          ELSE /\ Len(calls) = 1
               /\ Tag(arg) = "str" => EndsWith(calls[1], "\n\n" \o Val(arg))
  /\ (Done /\ op = "translate_list")
       => IF language = "en" \/ Tag(arg) # "list" THEN calls = << >>
          ELSE LET ne == NonEmpty(Val(arg))
               IN /\ Len(calls) = Len(ne)
                  /\ \A i \in 1..Len(ne) : EndsWith(calls[i], "\n\n" \o Val(ne[i]))

\* a list of two non-empty elements, the first call raising: two prompts
C5_Witness ==
  /\ Done /\ op = "translate_list" /\ language = "kn" /\ oracle[1] = "raise"
  /\ arg = PyList(<<PyStr("Wheat"), PyStr("Rotate crops")>>)
  /\ Len(calls) = 2

\* C6: get_medicine_link returns the URL of the first keyword, in table
\* order, that occurs in the candidate with the case of letters ignored,
\* wherever it occurs, and the fallback URL when none occurs (also for None
\* and "").
C6_FirstKeywordWins ==
  (Done /\ op = "get_medicine_link")
    => LET t == IF Tag(arg) = "str" THEN Val(arg) ELSE ""
           hits == {i \in 1..Len(mapping) : OccursIgnoringCase(mapping[i][1], t)}
       IN ret = PyStr(IF hits = {} THEN FallbackUrl
                      ELSE mapping[CHOOSE i \in hits : \A j \in hits : i <= j][2])

\* urea stands first in the candidate, mancozeb first in the table
C6_Witness ==
  /\ Done /\ op = "get_medicine_link" /\ arg = PyStr("UREAMancozeb")
  /\ ret = PyStr(mapping[1][2])

\* C7: the validation endpoint always answers 200: success false and
\* is_agricultural false when the image or the model call fails, otherwise
\* success true and is_agricultural true exactly when "yes" occurs in the
\* answer with the case of letters ignored, whatever the translation call does.
C7_ValidateNeverFails ==
  (Done /\ op = "validate_image")
    => /\ ret.status = 200
       /\ Tag(ret.body) = "dict"
       /\ IF ~image_ok \/ gen.kind = "raise"
          THEN /\ Lookup(ret.body, "success") = PyBool(FALSE)
               /\ Lookup(ret.body, "is_agricultural") = PyBool(FALSE)
          ELSE /\ Lookup(ret.body, "success") = PyBool(TRUE)
               /\ Lookup(ret.body, "is_agricultural") =
                    PyBool(gen.kind = "answer" /\ OccursIgnoringCase("yes", gen.text))
               /\ gen.kind = "answer" =>
                    Lookup(ret.body, "is_agricultural") = gen.doc
       /\ ~(/\ Lookup(ret.body, "is_agricultural") = PyBool(TRUE)
            /\ Lookup(ret.body, "success") = PyBool(FALSE))

\* an upper-case yes within whitespace, the translation of the message raising
C7_Witness ==
  /\ Done /\ op = "validate_image" /\ image_ok /\ gen.text = " YES \n"
  /\ language = "hi" /\ oracle[1] = "raise"
  /\ Lookup(ret.body, "is_agricultural") = PyBool(TRUE)
  /\ Len(calls) = 1

\* the product of the first entry of a list of the answer, "" when none
FirstOf(items, k) ==
  IF Len(Val(items)) > 0 THEN PyGet(Val(items)[1], k, PyStr("")) ELSE PyStr("")

\* the text C8 names: the first recommended product of the answer, else the
\* primary issue, the pest or the crop
LinkText(o, doc) ==
  CASE o = "analyze_plant" ->
         PyOr(FirstOf(At2(doc, "treatment", "chemical"), "product"),
              PyOr(FirstOf(Lookup(doc, "issues"), "name"),
                   At2(doc, "plant", "common_name")))
    [] o = "analyze_soil" ->
         PyOr(FirstOf(Lookup(doc, "fertilizer_plan"), "product"),
              IF Len(Val(Lookup(doc, "suitable_crops"))) > 0
              THEN Val(Lookup(doc, "suitable_crops"))[1] ELSE PyStr(""))
    [] OTHER ->
         PyOr(FirstOf(At2(doc, "control", "chemical"), "product"),
              At2(doc, "pest", "common_name"))

\* C8: the medicine link of a successful response is get_medicine_link of
\* the first recommended product of the answer, else of the primary issue,
\* pest or crop name, in every domain and language.
C8_LinkOfFirstProduct ==
  SucceededOnSchema
    => At2(ret.body, "medicine_links", "url") = get_medicine_link(LinkText(op, gen.doc))

\* C9 as stated: the span from the first "{" to the last "}" is parsed, the
\* whole text when that fails, and {} is returned only when both fail.
C9_TwoStep ==
  (Done /\ op = "safe_json_parse") => ret = safe_json_parse_two_step(gen.text)

\* C9 as amended: one parse is made, of the span when the text has one and of
\* the whole text otherwise, and {} is returned when it fails.  An object,
\* bare or within prose, comes back; so does a JSON value without a span;
\* a text with a span that is no JSON gives {}, also when the whole text is
\* JSON.
C9_OneParse ==
  (Done /\ op = "safe_json_parse")
    => ret = IF gen.kind \in {"object", "scalar"} THEN gen.doc ELSE EmptyDict

\* the whole text is JSON, its span is not: {} comes back
C9_Witness ==
  /\ Done /\ op = "safe_json_parse" /\ gen.kind = "bracejson"
  /\ JsonLoads(gen.text) = gen.doc
  /\ ret = EmptyDict

\* the issues of the answer and of the payload, for a plant request
DocIssues == Val(Lookup(gen.doc, "issues"))
PayloadIssues == Val(Lookup(ret.body, "issues"))

\* health.score and damage.severity are as extracted, and no prompt was sent
\* for them
ScoresUntouched ==
  /\ op = "analyze_plant" =>
       /\ At2(ret.body, "health", "score") = At2(gen.doc, "health", "score")
       /\ ~CallFor(Str(At2(gen.doc, "health", "score")))
  /\ op = "analyze_pest" =>
       /\ At2(ret.body, "damage", "severity") = At2(gen.doc, "damage", "severity")
       /\ ~CallFor(Str(At2(gen.doc, "damage", "severity")))

\* C10 as stated: the translation phase leaves health.score, damage.severity
\* and the type of each issue as extracted and sends no prompt for them.
C10_ScoresAndTypesUntouched ==
  SucceededOnSchema
    => /\ ScoresUntouched
       /\ op = "analyze_plant" =>
            \A i \in 1..Len(DocIssues) :
               HasKey(DocIssues[i], "type") =>
                  /\ PyGet(PayloadIssues[i], "type", None) = Lookup(DocIssues[i], "type")
                  /\ ~CallFor(Val(Lookup(DocIssues[i], "type")))

\* what the n-th translation call of the request returned for the text t
Returned(n, t) ==
  CASE OutcomeOf(n) = "raise" -> t
    [] OutcomeOf(n) \in {"none", "blank"} -> PyStr("")
    [] OTHER -> PyStr(Script(LangName(language), Val(t)))

\* C10 as amended: health.score and damage.severity are as extracted and no
\* prompt is sent for them; the type of each issue goes through
\* translate_text as its name and severity do: for a language other than en
\* a prompt is sent for every non-empty type and the payload holds what that
\* call returned (the type itself when the call raised); for en, and for an
\* empty or missing type, no prompt is sent and the payload holds the type
\* ("" when it was missing).
C10_ScoresUntouchedTypesTranslated ==
  SucceededOnSchema
    => /\ ScoresUntouched
       /\ op = "analyze_plant" =>
            \A i \in 1..Len(DocIssues) :
               LET t == PyGet(DocIssues[i], "type", PyStr(""))
                   out == PyGet(PayloadIssues[i], "type", None)
               IN IF language = "en" \/ ~Truthy(t)
                  THEN out = t /\ (language = "en" => calls = << >>)
                  ELSE \E n \in 1..Len(calls) :
                          /\ EndsWith(calls[n], "\n\n" \o Val(t))
                          /\ out = Returned(n, t)

\* the type "disease" of the first issue comes back in the target script
C10_Witness ==
  /\ SucceededOnSchema /\ op = "analyze_plant" /\ language = "hi"
  /\ \A n \in 1..OraclePeriod : oracle[n] = "native"
  /\ Len(DocIssues) > 0
  /\ Lookup(DocIssues[1], "type") = PyStr("disease")
  /\ Lookup(PayloadIssues[1], "type") = PyStr("~~~~~~~")
  /\ CallFor("disease")

====
